---- MODULE Spec2Model ----
(***************************************************************************)
(* A model of the CSE 140 course website's embedded-document loading       *)
(* (src/pages/Home.tsx: GoogleDocEmbed, Home), of the base-path resolution *)
(* of vite.config.ts and of scripts/build-github-pages.sh.                 *)
(*                                                                         *)
(* Strings whose characters matter (paths, repository names, URLs) are     *)
(* sequences of one-character strings, so that suffix tests, splitting and *)
(* concatenation are computed and not assumed.                             *)
(***************************************************************************)
EXTENDS Integers, Sequences, FiniteSets, TLC

VARIABLES
    \* ---- the page (Home.tsx) ----
    home,        \* the GoogleDocEmbed instance of the mounted Home page, 0 when none
    nextInst,    \* the next component instance to be created
    status,      \* per instance: "unborn", "mounted" or "unmounted"
    isLoading,   \* per instance: the useState value of Home.tsx:259
    iframeRef,   \* per instance: iframeRef.current, "element" or "null"
    dom,         \* per instance: what the last committed render put in the document
    signals,     \* per instance: number of load events delivered to its iframe
    errored,     \* per instance: whether an error event was delivered to its iframe
    thrown,      \* whether an event handler raised an uncaught exception
    \* ---- the preloader (hooks/use-iframe-preloader) ----
    registry,    \* ids already submitted for preloading
    created,     \* per id: hidden preload instances ever instantiated
    preload,     \* per id: "none", "loading", "loaded" or "failed"
    requested,   \* ids that appeared in the list of some EnsurePreloaded call
    repeated,    \* per id: whether it was asked for again after its first request
    \* ---- the build (scripts/build-github-pages.sh, vite.config.ts) ----
    pc,            \* where the build is
    arg1,          \* the script's $1
    gitInstalled,  \* whether `command -v git` succeeds
    gitRemote,     \* what `git remote get-url origin` prints, empty when it fails
    envBasePath,   \* the environment variable VITE_BASE_PATH
    envRepository, \* the environment variable GITHUB_REPOSITORY
    REPO_NAME,     \* the script's variable
    BASE_PATH,     \* the script's variable
    report,        \* the paths of the "Base path:" lines printed so far
    base           \* the base the Vite config returned

uiVars == <<home, nextInst, status, isLoading, iframeRef, dom, signals, errored,
            thrown, registry, created, preload, requested, repeated>>

buildVars == <<pc, arg1, gitInstalled, gitRemote, envBasePath, envRepository,
               REPO_NAME, BASE_PATH, report, base>>

vars == <<uiVars, buildVars>>

\* ---- bounds ----
MaxInst == 2
MaxSignals == 2
MaxList == 2
MaxLen == 3

Inst == 1..MaxInst
Ids == {"a", "b"}

RECURSIVE SeqsUpTo(_, _)
SeqsUpTo(S, n) ==
    IF n = 0 THEN {<<>>}
    ELSE LET shorter == SeqsUpTo(S, n - 1)
         IN  shorter \cup {Append(s, x) : s \in shorter, x \in S}

DescriptorLists == SeqsUpTo(Ids, MaxList)

Range(s) == {s[k] : k \in 1..Len(s)}

Occurrences(s, x) == Cardinality({k \in 1..Len(s) : s[k] = x})

\* ------------------------------------------------------------------------
\* GoogleDocEmbed (Home.tsx:257-296)
\* ------------------------------------------------------------------------

GOOGLE_DOC_URL == "https://docs.google.com/document/d/1Ppt5T9w8sUsd-aUSZ9rcst4KtCdgOcg6NuV6-tWE814/edit?tab=t.0"

\* What an instance that is not in the document contributes to it: nothing.
Unrendered ==
    [placeholder |-> FALSE, text |-> "", iframe |-> FALSE, src |-> "",
     loading |-> "", opacity |-> 0, height |-> ""]

InitialIsLoadingFalse == FALSE

\* useState(true)
InitialIsLoading == TRUE

GoogleDocEmbedRenderDeferred(loadingNow) ==
    [placeholder |-> loadingNow,
     text        |-> IF loadingNow THEN "Loading Syllabus..." ELSE "",
     iframe      |-> ~loadingNow,
     src         |-> IF loadingNow THEN "" ELSE GOOGLE_DOC_URL,
     loading     |-> IF loadingNow THEN "" ELSE "eager",
     opacity     |-> IF loadingNow THEN 0 ELSE 1,
     height      |-> "1200px"]

\* The JSX returned for a given isLoading: the skeleton is rendered only when
\* isLoading, the iframe always, with opacity isLoading ? 0 : 1.
GoogleDocEmbedRender(loadingNow) ==
    [placeholder |-> loadingNow,
     text        |-> IF loadingNow THEN "Loading Syllabus..." ELSE "",
     iframe      |-> TRUE,
     src         |-> GOOGLE_DOC_URL,
     loading     |-> "eager",
     opacity     |-> IF loadingNow THEN 0 ELSE 1,
     height      |-> "1200px"]

\* The state setter returned by useState. React applies an update only to a
\* component that is still mounted; on an unmounted one it changes nothing.
setIsLoading(i, v) ==
    isLoading' = IF status[i] = "mounted" THEN [isLoading EXCEPT ![i] = v]
                 ELSE isLoading

handleIframeLoadToggle(i) ==
    /\ setIsLoading(i, ~isLoading[i])
    /\ UNCHANGED thrown

handleIframeLoadViaRef(i) ==
    /\ setIsLoading(i, FALSE)
    /\ thrown' = (thrown \/ iframeRef[i] = "null")

handleIframeLoadShared(i) ==
    /\ isLoading' = [j \in Inst |-> IF status[j] = "mounted" \/ j = i
                                    THEN FALSE ELSE isLoading[j]]
    /\ UNCHANGED thrown

\* const handleIframeLoad = () => { setIsLoading(false); }
handleIframeLoad(i) ==
    /\ setIsLoading(i, FALSE)
    /\ UNCHANGED thrown

handleIframeErrorReveals(i) ==
    /\ setIsLoading(i, FALSE)
    /\ UNCHANGED thrown

\* The iframe is given no onError prop: an error event runs no code.
handleIframeError(i) ==
    UNCHANGED <<isLoading, thrown>>

\* React commits the render of every mounted instance from its new state; an
\* instance that is not mounted has nothing in the document.
Commit ==
    dom' = [i \in Inst |-> IF status'[i] = "mounted"
                           THEN GoogleDocEmbedRender(isLoading'[i])
                           ELSE Unrendered]

\* ------------------------------------------------------------------------
\* The preloader, as section 4.2 of the specification describes it
\* ------------------------------------------------------------------------

RECURSIVE EnsurePreloadedNoRegistry(_, _, _)
EnsurePreloadedNoRegistry(descriptors, reg, cnt) ==
    IF descriptors = <<>> THEN [registry |-> reg, created |-> cnt]
    ELSE LET id == Head(descriptors)
         IN  EnsurePreloadedNoRegistry(Tail(descriptors), reg \cup {id},
                                       [cnt EXCEPT ![id] = @ + 1])

\* EnsurePreloaded(descriptors): for each descriptor, in order, whose id is not
\* in the registry, add the id and instantiate one hidden surface.
RECURSIVE EnsurePreloaded(_, _, _)
EnsurePreloaded(descriptors, reg, cnt) ==
    IF descriptors = <<>> THEN [registry |-> reg, created |-> cnt]
    ELSE LET id == Head(descriptors)
         IN  IF id \in reg
             THEN EnsurePreloaded(Tail(descriptors), reg, cnt)
             ELSE EnsurePreloaded(Tail(descriptors), reg \cup {id},
                                  [cnt EXCEPT ![id] = @ + 1])

\* useIframePreloader(), run by the mount of Home with the list it is given.
useIframePreloader(descriptors) ==
    LET r == EnsurePreloaded(descriptors, registry, created)
    IN  /\ registry' = r.registry
        /\ created' = r.created
        /\ preload' = [id \in Ids |->
                          IF id \in r.registry \ registry THEN "loading"
                          ELSE preload[id]]
        /\ requested' = requested \cup Range(descriptors)
        /\ repeated' = [id \in Ids |->
                           \/ repeated[id]
                           \/ id \in requested /\ id \in Range(descriptors)
                           \/ Occurrences(descriptors, id) > 1]

\* ------------------------------------------------------------------------
\* The page's operations
\* ------------------------------------------------------------------------

UIInit ==
    /\ home = 0
    /\ nextInst = 1
    /\ status = [i \in Inst |-> "unborn"]
    /\ isLoading = [i \in Inst |-> TRUE]
    /\ iframeRef = [i \in Inst |-> "null"]
    /\ dom = [i \in Inst |-> Unrendered]
    /\ signals = [i \in Inst |-> 0]
    /\ errored = [i \in Inst |-> FALSE]
    /\ thrown = FALSE
    /\ registry = {}
    /\ created = [id \in Ids |-> 0]
    /\ preload = [id \in Ids |-> "none"]
    /\ requested = {}
    /\ repeated = [id \in Ids |-> FALSE]

\* The router mounts Home: the hook runs, and a fresh GoogleDocEmbed is created
\* and rendered for the first time.
HomeMount(descriptors) ==
    /\ UNCHANGED buildVars
    /\ home = 0
    /\ nextInst <= MaxInst
    /\ home' = nextInst
    /\ nextInst' = nextInst + 1
    /\ status' = [status EXCEPT ![nextInst] = "mounted"]
    /\ isLoading' = [isLoading EXCEPT ![nextInst] = InitialIsLoading]
    /\ iframeRef' = [iframeRef EXCEPT ![nextInst] = "element"]
    /\ useIframePreloader(descriptors)
    /\ UNCHANGED <<signals, errored, thrown>>
    /\ Commit

\* The user navigates away: Home and its GoogleDocEmbed are torn down. The
\* hidden preload surfaces are not part of the page and stay.
HomeUnmount ==
    /\ UNCHANGED buildVars
    /\ home # 0
    /\ home' = 0
    /\ status' = [status EXCEPT ![home] = "unmounted"]
    /\ iframeRef' = [iframeRef EXCEPT ![home] = "null"]
    /\ UNCHANGED <<nextInst, isLoading, signals, errored, thrown,
                   registry, created, preload, requested, repeated>>
    /\ Commit

\* The browser delivers a load event of instance i's iframe, possibly again
\* (a reload inside the frame) and possibly after the instance was torn down.
IframeLoad(i) ==
    /\ UNCHANGED buildVars
    /\ status[i] # "unborn"
    /\ signals[i] < MaxSignals
    /\ signals' = [signals EXCEPT ![i] = @ + 1]
    /\ handleIframeLoad(i)
    /\ UNCHANGED <<home, nextInst, status, iframeRef, errored,
                   registry, created, preload, requested, repeated>>
    /\ Commit

\* The browser delivers an error event of instance i's iframe.
IframeError(i) ==
    /\ UNCHANGED buildVars
    /\ status[i] # "unborn"
    /\ ~errored[i]
    /\ errored' = [errored EXCEPT ![i] = TRUE]
    /\ handleIframeError(i)
    /\ UNCHANGED <<home, nextInst, status, iframeRef, signals,
                   registry, created, preload, requested, repeated>>
    /\ Commit

\* A hidden preload surface finishes loading.
PreloadLoad(id) ==
    /\ UNCHANGED buildVars
    /\ preload[id] = "loading"
    /\ preload' = [preload EXCEPT ![id] = "loaded"]
    /\ UNCHANGED <<home, nextInst, status, isLoading, iframeRef, dom, signals,
                   errored, thrown, registry, created, requested, repeated>>

\* A hidden preload surface fails; nothing is rolled back.
PreloadFail(id) ==
    /\ UNCHANGED buildVars
    /\ preload[id] = "loading"
    /\ preload' = [preload EXCEPT ![id] = "failed"]
    /\ UNCHANGED <<home, nextInst, status, isLoading, iframeRef, dom, signals,
                   errored, thrown, registry, created, requested, repeated>>

UINext ==
    \/ \E descriptors \in DescriptorLists : HomeMount(descriptors)
    \/ HomeUnmount
    \/ \E i \in Inst : IframeLoad(i)
    \/ \E i \in Inst : IframeError(i)
    \/ \E id \in Ids : PreloadLoad(id)
    \/ \E id \in Ids : PreloadFail(id)


\* ------------------------------------------------------------------------
\* Strings of the build: sequences of characters
\* ------------------------------------------------------------------------

\* A shell parameter or environment variable: unset, or set to a string.
Unset == [set |-> FALSE, val |-> <<>>]

Val(s) == [set |-> TRUE, val |-> s]

SLASH == <<"/">>

DEFAULT_REPO == <<"C", "S", "E", "-", "1", "4", "0", "-", "W", "e", "b", "s", "i", "t", "e">>

USER_PAGES == <<"U", "S", "E", "R", "_", "P", "A", "G", "E", "S">>

USER_GITHUB_IO == <<"u", "s", "e", "r", ".", "g", "i", "t", "h", "u", "b", ".", "i", "o">>

DOT_GIT == <<".", "g", "i", "t">>

DOT_GITHUB_IO == <<".", "g", "i", "t", "h", "u", "b", ".", "i", "o">>

UNDEFINED == <<"u", "n", "d", "e", "f", "i", "n", "e", "d">>

\* String.prototype.endsWith, and the glob *suffix of [[ == ]]
EndsWith(s, suffix) ==
    /\ Len(s) >= Len(suffix)
    /\ SubSeq(s, Len(s) - Len(suffix) + 1, Len(s)) = suffix

\* String.prototype.split(sep) for a one-character separator
RECURSIVE Split(_, _)
Split(s, sep) ==
    IF \A k \in 1..Len(s) : s[k] # sep THEN <<s>>
    ELSE LET k == CHOOSE k \in 1..Len(s) :
                      s[k] = sep /\ \A j \in 1..(k - 1) : s[j] # sep
         IN  <<SubSeq(s, 1, k - 1)>> \o Split(SubSeq(s, k + 1, Len(s)), sep)

RECURSIVE StripTrailingSlashes(_)
StripTrailingSlashes(s) ==
    IF Len(s) > 1 /\ s[Len(s)] = "/" THEN StripTrailingSlashes(SubSeq(s, 1, Len(s) - 1))
    ELSE s

\* basename -s suffix name (GNU coreutils)
Basename(name, suffix) ==
    LET stripped == StripTrailingSlashes(name)
        parts == Split(stripped, "/")
        last == IF stripped = SLASH THEN SLASH ELSE parts[Len(parts)]
    IN  IF suffix # <<>> /\ last # suffix /\ EndsWith(last, suffix)
        THEN SubSeq(last, 1, Len(last) - Len(suffix))
        ELSE last

\* ${x:-word}: word when x is unset or empty
OrDefault(x, word) == IF x.set /\ x.val # <<>> THEN x.val ELSE word

\* "$x": the empty string when x is unset
Expand(x) == IF x.set THEN x.val ELSE <<>>

\* ------------------------------------------------------------------------
\* vite.config.ts: the base
\* ------------------------------------------------------------------------

\* JavaScript truthiness of process.env.X: set and not empty
Truthy(x) == x.set /\ x.val # <<>>

EnsureTrailingSlashSkipped(b) == b

\* if (base !== "/" && !base.endsWith("/")) base = base + "/"
EnsureTrailingSlash(b) ==
    IF b # SLASH /\ ~EndsWith(b, SLASH) THEN b \o SLASH ELSE b

\* process.env.GITHUB_REPOSITORY.split('/')[1], as the template literal prints it
RepoNameOf(repository) ==
    LET parts == Split(repository, "/")
    IN  IF Len(parts) >= 2 THEN parts[2] ELSE UNDEFINED

\* The base defineConfig returns under the given environment.
ResolveBase(basePath, repository) ==
    LET chosen == IF Truthy(basePath) THEN basePath.val
                  ELSE IF Truthy(repository)
                       THEN SLASH \o RepoNameOf(repository.val) \o SLASH
                       ELSE SLASH
    IN  EnsureTrailingSlash(chosen)

\* ------------------------------------------------------------------------
\* scripts/build-github-pages.sh
\* ------------------------------------------------------------------------

\* "Determine repository name": the values of REPO_NAME and BASE_PATH after
\* the if of lines 62-92.
DetermineRepositoryName(arg, installed, remote) ==
    LET first == Expand(arg)
        initial == OrDefault(arg, DEFAULT_REPO)
        detected == Basename(remote, DOT_GIT)
    IN  IF first = <<>> \/ first = USER_PAGES \/ first = USER_GITHUB_IO
        THEN IF installed
             THEN IF remote # <<>>
                  THEN IF EndsWith(detected, DOT_GITHUB_IO)
                       THEN [REPO_NAME |-> <<>>, BASE_PATH |-> SLASH]
                       ELSE LET name == IF detected # <<>> THEN detected
                                        ELSE DEFAULT_REPO
                            IN  [REPO_NAME |-> name,
                                 BASE_PATH |-> SLASH \o name \o SLASH]
                  ELSE [REPO_NAME |-> DEFAULT_REPO,
                        BASE_PATH |-> SLASH \o DEFAULT_REPO \o SLASH]
             ELSE [REPO_NAME |-> DEFAULT_REPO,
                   BASE_PATH |-> SLASH \o DEFAULT_REPO \o SLASH]
        ELSE IF EndsWith(initial, DOT_GITHUB_IO) \/ initial = USER_PAGES
             THEN [REPO_NAME |-> initial, BASE_PATH |-> SLASH]
             ELSE [REPO_NAME |-> initial, BASE_PATH |-> SLASH \o initial \o SLASH]

\* The "Base path:" line of the header (lines 95-101)
HeaderBasePath(repoName) ==
    IF repoName = <<>> \/ repoName = USER_PAGES THEN SLASH
    ELSE SLASH \o repoName \o SLASH

\* The "Base path:" line of "Build Complete" (line 135)
CompleteBasePath(repoName) == SLASH \o repoName \o SLASH

\* The inputs the build is run with
Args ==
    {Unset, Val(<<>>), Val(USER_PAGES), Val(USER_GITHUB_IO),
     Val(<<"m", "e", ".", "g", "i", "t", "h", "u", "b", ".", "i", "o">>), Val(DEFAULT_REPO), Val(<<"s", "i", "t", "e">>)}

Remotes ==
    {<<>>,
     <<"h", "t", "t", "p", "s", ":", "/", "/", "g", "i", "t", "h", "u", "b", ".", "c", "o", "m", "/", "m", "e", "/", "m", "e", ".", "g", "i", "t", "h", "u", "b", ".", "i", "o", ".", "g", "i", "t">>,
     <<"h", "t", "t", "p", "s", ":", "/", "/", "g", "i", "t", "h", "u", "b", ".", "c", "o", "m", "/", "m", "e", "/", "C", "S", "E", "1", "4", "0", "-", "W", "e", "b", "s", "i", "t", "e", ".", "g", "i", "t">>,
     <<"g", "i", "t", "@", "g", "i", "t", "h", "u", "b", ".", "c", "o", "m", ":", "m", "e", "/", "s", "i", "t", "e">>,
     <<"h", "t", "t", "p", "s", ":", "/", "/", "g", "i", "t", "h", "u", "b", ".", "c", "o", "m", "/", "m", "e", "/", "s", "i", "t", "e", "/">>}

EnvValues == {Unset} \cup {Val(s) : s \in SeqsUpTo({"a", "/"}, MaxLen)}

BuildIdle ==
    /\ pc = "shell"
    /\ REPO_NAME = Unset
    /\ BASE_PATH = Unset
    /\ report = <<>>
    /\ base = Unset

BuildInit ==
    /\ BuildIdle
    /\ arg1 \in Args
    /\ gitInstalled \in BOOLEAN
    /\ gitRemote \in (IF gitInstalled THEN Remotes ELSE {<<>>})
    /\ envBasePath \in EnvValues
    /\ envRepository \in EnvValues

\* vite is run from the shell (npm run dev, npm run build) under its environment.
ViteFromShell ==
    /\ UNCHANGED uiVars
    /\ pc = "shell"
    /\ base' = Val(ResolveBase(envBasePath, envRepository))
    /\ pc' = "served"
    /\ UNCHANGED <<arg1, gitInstalled, gitRemote, envBasePath, envRepository,
                   REPO_NAME, BASE_PATH, report>>

\* The script starts and determines the repository name (lines 58-92).
ScriptDetermine ==
    /\ UNCHANGED uiVars
    /\ pc = "shell"
    /\ LET r == DetermineRepositoryName(arg1, gitInstalled, gitRemote)
       IN  /\ REPO_NAME' = Val(r.REPO_NAME)
           /\ BASE_PATH' = Val(r.BASE_PATH)
    /\ pc' = "named"
    /\ UNCHANGED <<arg1, gitInstalled, gitRemote, envBasePath, envRepository,
                   report, base>>

\* It prints the header (lines 94-101).
ScriptHeader ==
    /\ UNCHANGED uiVars
    /\ pc = "named"
    /\ report' = Append(report, HeaderBasePath(Expand(REPO_NAME)))
    /\ pc' = "reported"
    /\ UNCHANGED <<arg1, gitInstalled, gitRemote, envBasePath, envRepository,
                   REPO_NAME, BASE_PATH, base>>

\* export VITE_BASE_PATH="$BASE_PATH" (line 104)
ScriptExport ==
    /\ UNCHANGED uiVars
    /\ pc = "reported"
    /\ envBasePath' = Val(Expand(BASE_PATH))
    /\ pc' = "exported"
    /\ UNCHANGED <<arg1, gitInstalled, gitRemote, envRepository,
                   REPO_NAME, BASE_PATH, report, base>>

\* npm run build:only succeeds (line 119): vite reads the exported environment.
ScriptBuild ==
    /\ UNCHANGED uiVars
    /\ pc = "exported"
    /\ base' = Val(ResolveBase(envBasePath, envRepository))
    /\ pc' = "built"
    /\ UNCHANGED <<arg1, gitInstalled, gitRemote, envBasePath, envRepository,
                   REPO_NAME, BASE_PATH, report>>

\* npm run build:only fails: set -e ends the script.
ScriptBuildFails ==
    /\ UNCHANGED uiVars
    /\ pc = "exported"
    /\ pc' = "failed"
    /\ UNCHANGED <<arg1, gitInstalled, gitRemote, envBasePath, envRepository,
                   REPO_NAME, BASE_PATH, report, base>>

\* It prints "Build Complete" (lines 131-135).
ScriptComplete ==
    /\ UNCHANGED uiVars
    /\ pc = "built"
    /\ report' = Append(report, CompleteBasePath(Expand(REPO_NAME)))
    /\ pc' = "complete"
    /\ UNCHANGED <<arg1, gitInstalled, gitRemote, envBasePath, envRepository,
                   REPO_NAME, BASE_PATH, base>>

BuildNext ==
    \/ ViteFromShell
    \/ ScriptDetermine
    \/ ScriptHeader
    \/ ScriptExport
    \/ ScriptBuild
    \/ ScriptBuildFails
    \/ ScriptComplete

\* The state the build is in while only the page runs, and conversely.
BuildAtRest ==
    /\ BuildIdle
    /\ arg1 = Unset
    /\ gitInstalled = FALSE
    /\ gitRemote = <<>>
    /\ envBasePath = Unset
    /\ envRepository = Unset

\* The page alone: the build variables keep their initial values.
Init == UIInit /\ BuildAtRest

Spec == Init /\ [][UINext]_vars

\* The build alone.
BuildSpecInit == UIInit /\ BuildInit

BuildSpec == BuildSpecInit /\ [][BuildNext]_vars

\* ------------------------------------------------------------------------
\* Properties
\* ------------------------------------------------------------------------

Mounted(i) == status[i] = "mounted"

\* An instance looks Loading: skeleton shown over an invisible iframe.
LooksLoading(view) == view.placeholder /\ view.iframe /\ view.opacity = 0

\* An instance looks Loaded: no skeleton, iframe fully opaque.
LooksLoaded(view) == ~view.placeholder /\ view.iframe /\ view.opacity = 1

\* C1: once a mounted instance has received a load event, its placeholder is
\* hidden, and from a state in which a mounted instance is Loaded no step
\* (another load event, an error event, a preload event) takes it back to
\* Loading or shows the placeholder again while it stays mounted.
C1_LoadedIsStable ==
    /\ [](\A i \in Inst : Mounted(i) /\ signals[i] >= 1 =>
             ~isLoading[i] /\ ~dom[i].placeholder)
    /\ [][\A i \in Inst :
             Mounted(i) /\ ~isLoading[i] /\ status'[i] = "mounted" =>
                 ~isLoading'[i] /\ ~dom'[i].placeholder /\ dom'[i].opacity = 1]_vars

\* An instance that received two load events while mounted and is still Loaded.
C1_Witness ==
    \E i \in Inst : Mounted(i) /\ signals[i] = 2 /\ LooksLoaded(dom[i])

\* C2: a mounted instance that has received no load event yet is Loading: the
\* placeholder is in the document and the iframe is mounted at opacity 0.
C2_InitiallyLoading ==
    \A i \in Inst : Mounted(i) /\ signals[i] = 0 =>
        /\ isLoading[i]
        /\ dom[i].placeholder
        /\ dom[i].text = "Loading Syllabus..."
        /\ dom[i].iframe
        /\ dom[i].opacity = 0

\* A freshly mounted instance, before any event of its iframe.
C2_Witness ==
    \E i \in Inst : Mounted(i) /\ signals[i] = 0 /\ ~errored[i] /\ LooksLoading(dom[i])

\* C3: whatever lists Home's mounts passed, each id has exactly one hidden
\* preload instance if some list held it, and none otherwise.
C3_OnePreloadPerId ==
    \A id \in Ids : created[id] = (IF id \in requested THEN 1 ELSE 0)

\* An id that was asked for again (by a later mount or twice in one list) and
\* has its single instance, next to an id never asked for.
C3_Witness ==
    /\ nextInst > 2
    /\ \E id \in Ids : repeated[id] /\ created[id] = 1
    /\ \E id \in Ids : id \notin requested /\ created[id] = 0

\* C4: a load event delivered to a torn-down instance changes no state of any
\* instance and raises nothing.
C4_LateSignalIsNoOp ==
    /\ [](~thrown)
    /\ [][\A i \in Inst :
             status[i] = "unmounted" /\ signals'[i] # signals[i] =>
                 /\ isLoading' = isLoading
                 /\ dom' = dom
                 /\ iframeRef' = iframeRef
                 /\ status' = status
                 /\ thrown' = thrown]_vars

\* An instance torn down while Loading that then received its load event.
C4_Witness ==
    \E i \in Inst :
        status[i] = "unmounted" /\ signals[i] = 1 /\ isLoading[i] /\ ~thrown

\* C5: in a step that delivers no load event to a mounted instance (a preload
\* completing or failing, a mount's EnsurePreloaded, an event of another
\* instance), that instance's LoadState and view do not change; and its own
\* load event makes it Loaded whatever the preload instances' states are.
C5_OwnSignalOnly ==
    [][\A i \in Inst : Mounted(i) /\ status'[i] = "mounted" =>
          /\ signals'[i] = signals[i] =>
                 isLoading'[i] = isLoading[i] /\ dom'[i] = dom[i]
          /\ signals'[i] # signals[i] =>
                 ~isLoading'[i] /\ LooksLoaded(dom'[i])]_vars

\* A mounted instance that became Loaded while a preload failed and another
\* is still pending, after an earlier instance got a late load event.
C5_Witness ==
    /\ \E i \in Inst : Mounted(i) /\ LooksLoaded(dom[i])
    /\ \E j \in Inst : status[j] = "unmounted" /\ signals[j] >= 1
    /\ \E id \in Ids : preload[id] = "failed"
    /\ \E id \in Ids : preload[id] = "loading"

\* C7: a mounted instance shows anything but the Loading view only after a
\* load event of its own, and it leaves Loading only in a step that delivers
\* one; an instance whose load event never comes keeps the placeholder.
C7_LoadedOnlyAfterSignal ==
    /\ [](\A i \in Inst : Mounted(i) /\ ~LooksLoading(dom[i]) => signals[i] >= 1)
    /\ [][\A i \in Inst :
             Mounted(i) /\ isLoading[i] /\ status'[i] = "mounted" /\ ~isLoading'[i]
                 => signals'[i] = signals[i] + 1]_vars

\* An instance whose iframe errored and never loaded, still behind the
\* placeholder, after its preload instances have all settled.
C7_Witness ==
    /\ \E i \in Inst : Mounted(i) /\ errored[i] /\ signals[i] = 0 /\ LooksLoading(dom[i])
    /\ registry # {}
    /\ \A id \in registry : preload[id] # "loading"

\* C8: a mounted instance always has its iframe in the document, requested
\* eagerly from the document URL, and a step changes nothing of its view
\* but the placeholder (with its text) and the opacity.
C8_SurfaceAlwaysMounted ==
    /\ [](\A i \in Inst : Mounted(i) =>
             /\ dom[i].iframe
             /\ dom[i].src = GOOGLE_DOC_URL
             /\ dom[i].loading = "eager")
    /\ [][\A i \in Inst : Mounted(i) /\ status'[i] = "mounted" =>
             [dom'[i] EXCEPT !.placeholder = dom[i].placeholder,
                             !.text = dom[i].text,
                             !.opacity = dom[i].opacity] = dom[i]]_vars

\* Both states of the view at once: a Loaded instance was reached.
C8_Witness ==
    \E i \in Inst : Mounted(i) /\ ~isLoading[i] /\ dom[i].iframe /\ dom[i].opacity = 1

Exported == pc \in {"exported", "built", "failed", "complete"}

\* C6, as claimed: with no argument, an empty one or USER_PAGES, the exported
\* VITE_BASE_PATH is "/".
C6_Claimed ==
    Exported /\ (Expand(arg1) = <<>> \/ Expand(arg1) = USER_PAGES)
        => envBasePath = Val(SLASH)

\* C9: the base the Vite config returns is never empty and ends with "/".
C9_BaseEndsWithSlash ==
    base.set => Len(base.val) > 0 /\ EndsWith(base.val, SLASH)

\* A VITE_BASE_PATH without a trailing slash, resolved by a direct run of vite.
C9_Witness ==
    /\ pc = "served"
    /\ envBasePath = Val(<<"a">>)
    /\ base = Val(<<"a", "/">>)

\* C10, as claimed: every "Base path:" line printed is the exported value.
C10_Claimed ==
    Exported => \A k \in 1..Len(report) : Val(report[k]) = envBasePath

====
